---- MODULE Spec2Model ----
(***************************************************************************)
(* Model of the ranking engine of iihf_preranking:                         *)
(*   - process_four_years (src/iihf/data.py), the rolling aggregator that  *)
(*     stamps four_year_points / four_year_rank on every period column;    *)
(*   - process_placement_dicts (src/iihf/objects.py), the superevent       *)
(*     merger, with get_formula, the rank-to-points table.                 *)
(*                                                                         *)
(* The DataFrame is modelled as a sequence of columns (superevents) and,   *)
(* per column, a function from the row index (participants) to a cell: a   *)
(* Placement record or NaN.  Series handed out by DataFrame.items() are    *)
(* views of the frame, as under the pandas the repository runs with: a     *)
(* cell written through superevent_data is the cell later read back by     *)
(* data[superevent].                                                       *)
(***************************************************************************)
EXTENDS Integers, Sequences, FiniteSets, TLC

VARIABLES
    superevents,            \* columns of data: <<[type, year], ...>> in column order
    data,                   \* data[j][participant]: Placement or NaN
    pc,                     \* position in load_data's call of process_four_years
    superevent_idx,         \* enumerate() index of the first loop (1-based)
    rank_idx,               \* column reached by the second loop (1-based)
    processed_superevents,  \* counters left by the last finished backward scan
    scanlog,                \* per finished target: what its backward scan did
    placement_dicts,        \* argument of process_placement_dicts
    mpc,                    \* position in process_placement_dicts
    dict_idx,               \* placement_dict reached by the merge loop (1-based)
    total_participants,     \* objects.py:138
    final_placements,       \* objects.py:139, participant -> Placement
    final_order,            \* insertion order of final_placements' keys
    fpc,                    \* position in a use of get_formula
    formula_max_rank,       \* max_rank, the argument of get_formula
    points_table,           \* points_list held by the returned closure
    lookup_rank,            \* rank, the argument of the last _rank_to_points call
    points_out,             \* value the last _rank_to_points call returned
    lpc,                    \* position in load_event
    sheet_event,            \* event of load_event, parsed from the sheet name
    sheet_data,             \* rows of the sheet load_event reads
    row_idx,                \* 1-based index of the next row of the sheet
    sheet_placement_dict,   \* placement_dict of load_event
    events,                 \* events: Event -> placement_dict
    epc,                    \* position in process_events
    pair_idx,               \* 1-based index of the next (year, superevent type)
    superevent_data,        \* superevent_data of process_events
    run,                    \* number of the call of process_four_years under way
    first_run_data,         \* the table the first call of process_four_years left
    sequential_data,        \* the table the loops of process_four_years return
    scans,                  \* per target period: the position and counters of its scan
    ranked                  \* target periods whose rolling ranks are assigned

aggvars == <<superevents, data, pc, superevent_idx, rank_idx,
             processed_superevents, scanlog>>
mergevars == <<placement_dicts, mpc, dict_idx, total_participants,
               final_placements, final_order>>
formulavars == <<fpc, formula_max_rank, points_table, lookup_rank, points_out>>
loadvars == <<lpc, sheet_event, sheet_data, row_idx, sheet_placement_dict, events>>
eventvars == <<epc, pair_idx, superevent_data>>
rerunvars == <<run, first_run_data>>
taskvars == <<sequential_data, scans, ranked>>
vars == <<aggvars, mergevars, formulavars, loadvars, eventvars, rerunvars, taskvars>>

----------------------------------------------------------------------------
(* Bounds of the model *)

\* longest table (number of superevent columns) drawn by Init
MaxPeriods == 5

\* most placement sets handed to process_placement_dicts by InitMerge
MaxEvents == 2

\* highest raw rank of a sheet row drawn by InitMerge
MaxRank == 3

\* largest field size handed to get_formula by InitFormula
MaxFieldSize == 11

\* most rows of a sheet drawn by InitLoad
MaxRows == 3

\* most periods of a table process_four_years is called on more than once
MaxRerunPeriods == 3

\* most calls of process_four_years on one table
MaxRuns == 2

\* most periods of a table whose periods are processed as separate tasks
MaxTaskPeriods == 3

\* most periods of a table longer than the range of a backward scan
MaxWindowPeriods == 6

----------------------------------------------------------------------------
(* objects.py: superevent classes *)

OlympicGames == "OlympicGames"
Championship == "Championship"
SuperEventTypes == {OlympicGames, Championship}

\* class attribute order_in_year
order_in_year(type) == IF type = OlympicGames THEN 0 ELSE 1

\* whole_years_behind without the correction for the order within the year
whole_years_behind_noorder(self, other) == other.year - self.year

\* SuperEvent.whole_years_behind(self, other)
whole_years_behind(self, other) ==
    LET years == other.year - self.year
    IN  IF order_in_year(self.type) > order_in_year(other.type)
        THEN years - 1
        ELSE years

\* math.inf, the value of an unset rank: above every rank of the model
MathInf == 1000000000

NaN == [null |-> TRUE]

isnull(cell) == cell.null

\* Placement(original_participant_code, superevent_rank, superevent_points=0,
\*           four_year_rank=math.inf, four_year_points=0)
Placement(code, rank, points) ==
    [null |-> FALSE,
     original_participant_code |-> code,
     superevent_rank |-> rank,
     superevent_points |-> points,
     four_year_rank |-> MathInf,
     four_year_points |-> 0]

\* a rank key that leaves out the points of the period itself
get_four_year_rank_key_nopoints(plac) == <<0 - plac.four_year_points, 0>>

\* Placement.get_four_year_rank_key
get_four_year_rank_key(plac) == <<0 - plac.four_year_points, 0 - plac.superevent_points>>

----------------------------------------------------------------------------
(* data.py: constants *)

LIMITS(type) == IF type = OlympicGames THEN 1 ELSE 4

LIMIT_YEARS == 4

\* a scan that may visit one column more
SCAN_RANGE_wide == LIMIT_YEARS + 2

\* range(min(superevent_idx + 1, 5)): the number of columns a scan may visit
SCAN_RANGE == 5

----------------------------------------------------------------------------
(* data.py: process_four_years, first loop *)

Max(a, b) == IF a >= b THEN a ELSE b
Min(a, b) == IF a <= b THEN a ELSE b

\* a coefficient that already decays in the year of the target
CoefQuarters_shifted(older, superevent) ==
    Max(0, 3 - whole_years_behind(older, superevent))

\* coef = max(0, 1 - 0.25 * whole_years_behind), kept as a number of quarters
CoefQuarters(older, superevent) ==
    Max(0, 4 - whole_years_behind(older, superevent))

\* int(x / 4): Python's int() truncates toward zero
IntOfQuarters(x) == IF x >= 0 THEN x \div 4 ELSE 0 - ((0 - x) \div 4)

\* int(coef * older_placement.superevent_points)
DecayedPoints(older, superevent, points) ==
    IntOfQuarters(CoefQuarters(older, superevent) * points)

\* data.py:107-108: the cell of the target column after the placeholder test
WithPlaceholder(cell) ==
    IF isnull(cell) THEN Placement("None", MathInf, 0) ELSE cell

\* an accumulation that reads the rolling points stamped on the older column
AddColumn_rolling(target_col, older_col, older, superevent) ==
    [p \in DOMAIN target_col |->
        LET cell == WithPlaceholder(target_col[p])
        IN  IF isnull(older_col[p])
            THEN cell
            ELSE [cell EXCEPT !.four_year_points =
                     @ + DecayedPoints(older, superevent,
                                       older_col[p].superevent_points
                                       + older_col[p].four_year_points)]]

\* data.py:106-111: the target column after the loop over the rows of the
\* older column; older_col is the older column as the iteration reads it
AddColumn(target_col, older_col, older, superevent) ==
    [p \in DOMAIN target_col |->
        LET cell == WithPlaceholder(target_col[p])
        IN  IF isnull(older_col[p])
            THEN cell
            ELSE [cell EXCEPT !.four_year_points =
                     @ + DecayedPoints(older, superevent,
                                       older_col[p].superevent_points)]]

\* data.py:113-117
AllLimitsReached(counts) ==
    \A type \in SuperEventTypes : counts[type] = LIMITS(type)

\* a cap test that lets one period too many through
LimitReached_off(counts, type) == counts[type] > LIMITS(type)

\* data.py:98
LimitReached(counts, type) == counts[type] >= LIMITS(type)

\* a cut-off one year too late
TooOld_late(older, superevent) == superevent.year - older.year > LIMIT_YEARS + 1

\* data.py:100
TooOld(older, superevent) == superevent.year - older.year > LIMIT_YEARS

\* data.py:96-117: the backward scan for the target at index idx, from step
\* backward on.  st carries the frame as mutated so far, the counters and the
\* log of the scan.
RECURSIVE Scan(_, _, _)
Scan(idx, backward, st) ==
    IF backward >= Min(idx, SCAN_RANGE)
    THEN st
    ELSE
        LET j == idx - backward
            superevent == superevents[idx]
            older == superevents[j]
        IN  IF LimitReached(st.counts, older.type)
            THEN Scan(idx, backward + 1,
                      [st EXCEPT !.skipped = @ \cup {j}])
            ELSE IF TooOld(older, superevent)
            THEN [st EXCEPT !.cutoff = @ \cup {j}]
            ELSE
                LET counts == [st.counts EXCEPT ![older.type] = @ + 1]
                    col == AddColumn(st.frame[idx], st.frame[j], older, superevent)
                    nst == [st EXCEPT !.counts = counts,
                                      !.frame = [@ EXCEPT ![idx] = col],
                                      !.used = @ \cup {j}]
                IN  IF AllLimitsReached(counts)
                    THEN nst
                    ELSE Scan(idx, backward + 1, nst)

\* data.py:94
NoneProcessed == [type \in SuperEventTypes |-> 0]

ScanOf(idx) ==
    Scan(idx, 0, [frame |-> data, counts |-> NoneProcessed,
                  used |-> {}, skipped |-> {}, cutoff |-> {}])

\* data.py:93-117: one iteration of the first loop
ProcessSuperevent ==
    /\ pc = "accumulate"
    /\ superevent_idx <= Len(superevents)
    /\ LET st == ScanOf(superevent_idx)
       IN  /\ data' = st.frame
           /\ processed_superevents' = st.counts
           /\ scanlog' = Append(scanlog, [used |-> st.used,
                                          skipped |-> st.skipped,
                                          cutoff |-> st.cutoff,
                                          counts |-> st.counts])
    /\ superevent_idx' = superevent_idx + 1
    /\ pc' = IF superevent_idx = Len(superevents) THEN "rank" ELSE "accumulate"
    /\ UNCHANGED <<superevents, rank_idx, mergevars, formulavars, loadvars, eventvars,
                   rerunvars, taskvars>>

----------------------------------------------------------------------------
(* data.py: process_four_years, second loop *)

\* Participant.__lt__: participants are ordered by code; the row index of the
\* frame is kept in that order
ParticipantCodes == <<"AAA", "BBB", "CCC", "DDD">>

CodePosition(code) == CHOOSE i \in 1..Len(ParticipantCodes) : ParticipantCodes[i] = code

CodeLess(p, q) == CodePosition(p) < CodePosition(q)

\* tuple comparison of two rank keys
KeyLess(k1, k2) == \/ k1[1] < k2[1]
                   \/ k1[1] = k2[1] /\ k1[2] < k2[2]

\* data.py:121: position (from 0) of row p in sorted(superevent_placements);
\* sorted() is stable, rows with equal keys keep the order of the index
SortedPosition(col, p) ==
    LET present == {q \in DOMAIN col : ~ isnull(col[q])}
        key(q) == get_four_year_rank_key(col[q])
        before(q) == \/ KeyLess(key(q), key(p))
                     \/ key(q) = key(p) /\ CodeLess(q, p)
    IN  Cardinality({q \in present : before(q)})

\* a rank assignment that also overwrites the rank within the period
RankColumn_own(col) ==
    [p \in DOMAIN col |->
        IF isnull(col[p]) THEN col[p]
        ELSE [col[p] EXCEPT !.four_year_rank = SortedPosition(col, p) + 1,
                            !.superevent_rank = SortedPosition(col, p) + 1]]

\* data.py:120-123 for one column
RankColumn(col) ==
    [p \in DOMAIN col |->
        IF isnull(col[p]) THEN col[p]
        ELSE [col[p] EXCEPT !.four_year_rank = SortedPosition(col, p) + 1]]

\* data.py:119-123: one iteration of the second loop
AssignRanks ==
    /\ pc = "rank"
    /\ rank_idx <= Len(superevents)
    /\ data' = [data EXCEPT ![rank_idx] = RankColumn(data[rank_idx])]
    /\ rank_idx' = rank_idx + 1
    /\ pc' = IF rank_idx = Len(superevents) THEN "done" ELSE "rank"
    /\ UNCHANGED <<superevents, superevent_idx, processed_superevents, scanlog,
                   mergevars, formulavars, loadvars, eventvars,
                   rerunvars, taskvars>>

----------------------------------------------------------------------------
(* Tables handed to process_four_years *)

\* the two period categories in column order within a year (process_events
\* builds OlympicGames(year) before Championship(year))
SuperEvent(type, year) == [type |-> type, year |-> year]

\* Only year differences are read (data.py:100, objects.py:106), so the first
\* column is put at year 0; a span of LIMIT_YEARS + 1 years holds every
\* distance up to and beyond the cut-off.
Years == 0..(LIMIT_YEARS + 1)

Slots == {SuperEvent(type, year) : type \in SuperEventTypes, year \in Years}

\* an order that puts Championship before OlympicGames within a year
SlotLess_swapped(a, b) ==
    \/ a.year < b.year
    \/ a.year = b.year /\ order_in_year(a.type) > order_in_year(b.type)

SlotLess(a, b) == \/ a.year < b.year
                  \/ a.year = b.year /\ order_in_year(a.type) < order_in_year(b.type)

\* data.py:69-70: columns in ascending year, OlympicGames first within a year
RECURSIVE ColumnOrder(_)
ColumnOrder(S) ==
    IF S = {} THEN <<>>
    ELSE LET first == CHOOSE a \in S : \A b \in S \ {a} : SlotLess(a, b)
         IN  <<first>> \o ColumnOrder(S \ {first})

Structures ==
    {S \in SUBSET Slots : /\ Cardinality(S) >= 1
                          /\ Cardinality(S) <= MaxPeriods
                          /\ \E a \in S : a.year = 0}

\* The placements of one period: kind 1 has AAA alone, kind 2 has BBB ahead
\* of AAA.  50 points are not a multiple of 4, so int() rounds.
ColumnKinds == {1, 2}

\* AAA takes part in every period, BBB in one stretch of consecutive periods
\* (or in none)
Careers(n) ==
    {[j \in 1..n |-> IF first <= j /\ j <= last THEN 2 ELSE 1] :
        first \in 1..(n + 1), last \in 0..n}

KindPlacements(kind) ==
    IF kind = 1
    THEN [p \in {"AAA"} |-> Placement("AAA", 1, 100)]
    ELSE [p \in {"AAA", "BBB"} |->
             IF p = "AAA" THEN Placement("AAA", 2, 50) ELSE Placement("BBB", 1, 100)]

\* data.py:84-86: pd.concat(axis=1) gives every column the union of the
\* participants as its rows, NaN where a participant has no placement
Frame(kinds) ==
    LET index == UNION {DOMAIN KindPlacements(kinds[j]) : j \in DOMAIN kinds}
    IN  [j \in DOMAIN kinds |->
            [p \in index |->
                IF p \in DOMAIN KindPlacements(kinds[j])
                THEN KindPlacements(kinds[j])[p]
                ELSE NaN]]

\* test_data.py:28-44: the table of test_process_four_years
ScenarioSuperevents ==
    <<SuperEvent(Championship, 9), SuperEvent(Championship, 12),
      SuperEvent(Championship, 13), SuperEvent(OlympicGames, 14),
      SuperEvent(Championship, 15), SuperEvent(OlympicGames, 16),
      SuperEvent(Championship, 16), SuperEvent(Championship, 17),
      SuperEvent(Championship, 18), SuperEvent(Championship, 19),
      SuperEvent(OlympicGames, 20), SuperEvent(Championship, 20)>>

ScenarioPoints == <<900, 1200, 1300, 1400, 1500, 1600, 1604, 1700, 1800, 1900, 2000, 2004>>

ScenarioFrame ==
    [j \in 1..Len(ScenarioPoints) |->
        [p \in {"AAA"} |-> Placement("AAA", 1, ScenarioPoints[j])]]

LoadIdle ==
    /\ lpc = "idle"
    /\ sheet_event = <<>>
    /\ sheet_data = <<>>
    /\ row_idx = 1
    /\ sheet_placement_dict = <<>>
    /\ events = <<>>

EventsIdle ==
    /\ epc = "idle"
    /\ pair_idx = 1
    /\ superevent_data = <<>>

\* data.py:34: process_four_years is called once on a fresh table
SingleRun ==
    /\ run = 1
    /\ first_run_data = <<>>

\* the periods are processed one after the other by the loops of
\* process_four_years, not as separate tasks
NoTasks ==
    /\ sequential_data = <<>>
    /\ scans = <<>>
    /\ ranked = {}

FormulaIdle ==
    /\ fpc = "idle"
    /\ formula_max_rank = 0
    /\ points_table = <<>>
    /\ lookup_rank = 0
    /\ points_out = 0

MergeIdle ==
    /\ placement_dicts = <<>>
    /\ mpc = "idle"
    /\ dict_idx = 1
    /\ total_participants = 0
    /\ final_placements = <<>>
    /\ final_order = <<>>

InitTable ==
    \/ \E S \in Structures :
          \E kinds \in Careers(Cardinality(S)) :
             /\ superevents = ColumnOrder(S)
             /\ data = Frame(kinds)
    \/ /\ superevents = ScenarioSuperevents
       /\ data = ScenarioFrame

Init ==
    /\ InitTable
    /\ pc = "accumulate"
    /\ superevent_idx = 1
    /\ rank_idx = 1
    /\ processed_superevents = NoneProcessed
    /\ scanlog = <<>>
    /\ MergeIdle
    /\ FormulaIdle
    /\ LoadIdle
    /\ EventsIdle
    /\ SingleRun
    /\ NoTasks

Next == ProcessSuperevent \/ AssignRanks

Spec == Init /\ [][Next]_vars

----------------------------------------------------------------------------
(* Vocabulary of the properties of process_four_years *)

\* targets whose backward scan is finished
Processed == 1..Len(scanlog)

\* the targets a property is read on: the one whose scan has just finished
\* and, once the run is over, every one
Settled == IF pc = "done" THEN Processed ELSE {Len(scanlog)} \cap Processed

RowIndex == DOMAIN data[1]

\* a placement that came with the table, not a placeholder of data.py:108
HasPlacement(j, p) ==
    /\ ~ isnull(data[j][p])
    /\ data[j][p].original_participant_code # "None"

OwnPoints(j, p) == IF isnull(data[j][p]) THEN 0 ELSE data[j][p].superevent_points

RollingPoints(j, p) == data[j][p].four_year_points

RollingRank(j, p) == data[j][p].four_year_rank

\* the year distance and the whole years behind, as the specification words them
YearsBefore(j, i) == superevents[i].year - superevents[j].year

WholeYearsBehind(j, i) ==
    IF superevents[j].type = Championship /\ superevents[i].type = OlympicGames
    THEN YearsBefore(j, i) - 1
    ELSE YearsBefore(j, i)

Cap(type) == IF type = OlympicGames THEN 1 ELSE 4

\* periods of T's category met by the backward scan of i before it reaches j
SameCategoryAfter(j, i) ==
    {k \in (j + 1)..i : superevents[k].type = superevents[j].type}

\* T = column j contributes to S = column i: among the five columns of the
\* scan, not beyond the cap of its category and not cut off by the years
Contributes(j, i) ==
    /\ j \in Max(1, i - 4)..i
    /\ YearsBefore(j, i) <= 4
    /\ Cardinality(SameCategoryAfter(j, i)) < Cap(superevents[j].type)

Contributors(i) == {j \in 1..i : Contributes(j, i)}

\* floor(c(T,S) * points), c = max(0, 1 - 0.25 * wholeYearsBehind)
FloorDecay(j, i, points) ==
    (Max(0, 4 - WholeYearsBehind(j, i)) * points) \div 4

RECURSIVE SumDecayed(_, _, _)
SumDecayed(J, i, p) ==
    IF J = {} THEN 0
    ELSE LET j == CHOOSE x \in J : TRUE
         IN  FloorDecay(j, i, OwnPoints(j, p)) + SumDecayed(J \ {j}, i, p)

ExpectedRolling(i, p) == SumDecayed(Contributors(i), i, p)

ScenarioRolling == <<900, 1425, 2200, 3600, 3500, 4050, 4654, 4853, 5052, 4901, 6501, 6754>>

----------------------------------------------------------------------------
(* C1 *)

\* C1: for every target period S (when its scan has finished and at the end
\* of the run) and every participant p of the table, p's
\* rolling points in S are the sum over the contributing periods T of
\* floor(c(T,S) * p's own points in T); a participant placed in a contributing
\* period has a cell in S; the 12-period scenario yields the documented totals.
C1_RollingPointsAreDecayedSum ==
    /\ \A i \in Settled :
          LET J == Contributors(i)
          IN  \A p \in RowIndex :
                /\ ~ isnull(data[i][p]) => RollingPoints(i, p) = SumDecayed(J, i, p)
                /\ (\E j \in J : HasPlacement(j, p)) => ~ isnull(data[i][p])
    /\ superevents = ScenarioSuperevents =>
          \A i \in Settled : RollingPoints(i, "AAA") = ScenarioRolling[i]

\* a target with an older contributor whose decayed points are rounded down
C1_Witness ==
    \E i \in Processed : \E j \in Contributors(i) : \E p \in RowIndex :
        /\ j < i
        /\ HasPlacement(j, p)
        /\ (Max(0, 4 - WholeYearsBehind(j, i)) * OwnPoints(j, p)) % 4 # 0
        /\ RollingPoints(i, p) = ExpectedRolling(i, p)
        /\ RollingPoints(i, p) > OwnPoints(i, p)

----------------------------------------------------------------------------
(* C2 *)

UsedOfType(i, type) == {j \in scanlog[i].used : superevents[j].type = type}

\* C2: at most 1 OlympicGames and at most 4 Championship periods contribute to
\* a target, the target included; a period met when the counter of its
\* category has reached the cap is skipped: it does not contribute and no
\* counter moves for it (each counter is the number of contributors).
C2_CategoryCaps ==
    \A i \in Settled :
        /\ Cardinality(UsedOfType(i, OlympicGames)) <= 1
        /\ Cardinality(UsedOfType(i, Championship)) <= 4
        /\ \A type \in SuperEventTypes :
              scanlog[i].counts[type] = Cardinality(UsedOfType(i, type))
        /\ scanlog[i].skipped \cap scanlog[i].used = {}
        /\ \A j \in 1..i :
              Cardinality(SameCategoryAfter(j, i)) >= Cap(superevents[j].type)
                 => j \notin scanlog[i].used
        /\ \A j \in scanlog[i].skipped :
              Cardinality(SameCategoryAfter(j, i)) >= Cap(superevents[j].type)

\* a fifth Championship within the scan of a target is skipped
C2_Witness ==
    \E i \in Processed : \E j \in scanlog[i].skipped :
        /\ superevents[j].type = Championship
        /\ YearsBefore(j, i) <= 4
        /\ Cardinality(UsedOfType(i, Championship)) = 4

----------------------------------------------------------------------------
(* C3 *)

\* C3: no period more than 4 years before the target contributes; the scan
\* stops at the first non-skipped period beyond 4 years: nothing at or before
\* it contributes, is examined or moves a counter.
C3_YearCutoff ==
    \A i \in Settled :
        /\ \A j \in 1..i : YearsBefore(j, i) > 4 => j \notin scanlog[i].used
        /\ \A k \in scanlog[i].cutoff :
              /\ YearsBefore(k, i) > 4
              /\ \A j \in 1..k : j \notin scanlog[i].used /\ j \notin scanlog[i].skipped
        /\ \A type \in SuperEventTypes :
              scanlog[i].counts[type] =
                 Cardinality({j \in 1..i : /\ superevents[j].type = type
                                           /\ Contributes(j, i)})

\* a scan that met a period more than 4 years back, with an earlier one behind it
C3_Witness ==
    \E i \in Processed : \E k \in scanlog[i].cutoff :
        /\ k > 1
        /\ scanlog[i].used # {}
        /\ \A p \in RowIndex : RollingPoints(i, p) = ExpectedRolling(i, p)

----------------------------------------------------------------------------
(* C4 *)

\* columns the second loop has ranked
Ranked == 1..(rank_idx - 1)

\* the ranked columns a property is read on: the one just ranked and, once
\* the run is over, every one
RankSettled == IF pc = "done" THEN Ranked ELSE {rank_idx - 1} \cap Ranked

Placed(j) == {p \in RowIndex : ~ isnull(data[j][p])}

\* C4: after process_four_years the rolling ranks of the K placements of a
\* period (all have finite rolling points) are exactly 1..K, each used once,
\* in the order (descending rolling points, then descending own points);
\* until the second loop reaches a period its ranks are unset.
C4_DenseRollingRank ==
    /\ \A j \in RankSettled :
          /\ {RollingRank(j, p) : p \in Placed(j)} = 1..Cardinality(Placed(j))
          /\ \A p, q \in Placed(j) :
                /\ p # q => RollingRank(j, p) # RollingRank(j, q)
                /\ (\/ RollingPoints(j, p) > RollingPoints(j, q)
                    \/ /\ RollingPoints(j, p) = RollingPoints(j, q)
                       /\ OwnPoints(j, p) > OwnPoints(j, q))
                   => RollingRank(j, p) < RollingRank(j, q)
    /\ \A j \in (1..Len(superevents)) \ Ranked :
          \A p \in Placed(j) : RollingRank(j, p) = MathInf

\* a ranked period where two placements tie on rolling points and the own
\* points of the period decide
C4_Witness ==
    /\ pc = "done"
    /\ \E j \in Ranked : \E p, q \in Placed(j) :
          /\ RollingPoints(j, p) = RollingPoints(j, q)
          /\ OwnPoints(j, p) > OwnPoints(j, q)
          /\ RollingRank(j, p) = 1
          /\ RollingRank(j, q) = 2

----------------------------------------------------------------------------
(* C5 *)

\* C5: at the end of the run a participant of the table with no placement in
\* any period contributing to S has no placement in S (and so no rolling rank).
C5_PlaceholderOnlyForContributors ==
    pc = "done" =>
        \A i \in Processed : \A p \in RowIndex :
            (~ \E j \in Contributors(i) : HasPlacement(j, p)) => isnull(data[i][p])

----------------------------------------------------------------------------
(* C6 *)

\* S has no qualifying history: it is the first period or every earlier
\* period lies more than 4 years back
NoHistory(i) == \A j \in 1..(i - 1) : YearsBefore(j, i) > 4

\* C6: every target contributes to itself with coefficient 1, so a participant
\* placed in S has rolling points >= its own points, and exactly its own
\* points when S has no qualifying history.
C6_OwnPointsCountInFull ==
    \A i \in Settled :
        /\ i \in scanlog[i].used
        /\ \A p \in RowIndex :
              HasPlacement(i, p) =>
                 /\ RollingPoints(i, p) >= OwnPoints(i, p)
                 /\ NoHistory(i) => RollingPoints(i, p) = OwnPoints(i, p)

\* a later period whose whole history is cut off by the years, a participant
\* of it with exactly its own points
C6_Witness ==
    \E i \in Processed : \E p \in RowIndex :
        /\ i > 1
        /\ NoHistory(i)
        /\ HasPlacement(i, p)
        /\ OwnPoints(i, p) > 0
        /\ RollingPoints(i, p) = OwnPoints(i, p)

----------------------------------------------------------------------------
(* objects.py: get_formula *)

\* objects.py:157
point_breaks == {1, 2, 4, 8}

\* the thresholds counted from max_rank >= pb on instead of max_rank >= pb + 1
TopPoints_early(max_rank) ==
    20 * max_rank + Cardinality({pb \in point_breaks : max_rank >= pb}) * 20

\* objects.py:160
TopPoints(max_rank) ==
    20 * max_rank + Cardinality({pb \in point_breaks : max_rank >= pb + 1}) * 20

\* objects.py:161-165: points_list from loop index i on
RECURSIVE PointsFrom(_, _, _)
PointsFrom(i, points, max_rank) ==
    IF i >= max_rank THEN <<>>
    ELSE <<points>> \o PointsFrom(i + 1,
                                  IF i + 1 \in point_breaks THEN points - 40
                                                            ELSE points - 20,
                                  max_rank)

points_list(max_rank) == PointsFrom(0, TopPoints(max_rank), max_rank)

\* a guard that lets a field of size 0 through
FormulaRaises_negative(max_rank) == max_rank < 0

\* objects.py:154: get_formula raises ValueError
FormulaRaises(max_rank) == max_rank <= 0

\* objects.py:168: _rank_to_points raises ValueError
RankRaises(max_rank, rank) == rank < 1 \/ rank > max_rank

\* objects.py:171
rank_to_points(max_rank, rank) == points_list(max_rank)[rank]

----------------------------------------------------------------------------
(* objects.py: process_placement_dicts *)

\* superevent_points = row.get("points") of a sheet without a points column
NonePoints == -1

\* objects.py:147: not placement.superevent_points
NotPoints(points) == points = NonePoints \/ points = 0

\* the keys of a dict in insertion order; the rows of a sheet are taken in
\* the order of the participant codes
RECURSIVE KeysInOrder(_)
KeysInOrder(S) ==
    IF S = {} THEN <<>>
    ELSE LET first == CHOOSE p \in S : \A q \in S \ {p} : CodeLess(p, q)
         IN  <<first>> \o KeysInOrder(S \ {first})

\* a count of rank slots instead of placements: the highest rank plus the
\* number of placements that share it
DictLen_slots(placement_dict) ==
    IF DOMAIN placement_dict = {} THEN 0
    ELSE LET top == CHOOSE r \in {placement_dict[p].superevent_rank : p \in DOMAIN placement_dict} :
                        \A p \in DOMAIN placement_dict : placement_dict[p].superevent_rank <= r
         IN  top + Cardinality({p \in DOMAIN placement_dict :
                                  placement_dict[p].superevent_rank = top})

\* objects.py:143: len(placement_dict)
DictLen(placement_dict) == Cardinality(DOMAIN placement_dict)

\* objects.py:141-142: final_placements after the inner loop
Inserted(final, placement_dict) ==
    [p \in DOMAIN final \cup DOMAIN placement_dict |->
        IF p \in DOMAIN placement_dict THEN placement_dict[p] ELSE final[p]]

\* objects.py:140-143: one iteration of the merge loop
FoldPlacementDict ==
    /\ mpc = "fold"
    /\ dict_idx <= Len(placement_dicts)
    /\ LET placement_dict == placement_dicts[dict_idx]
       IN  /\ final_placements' = Inserted(final_placements, placement_dict)
           /\ final_order' = final_order \o
                 KeysInOrder(DOMAIN placement_dict \ DOMAIN final_placements)
           /\ total_participants' = total_participants + DictLen(placement_dict)
    /\ dict_idx' = dict_idx + 1
    /\ UNCHANGED <<placement_dicts, mpc, aggvars, formulavars, loadvars, eventvars,
                   rerunvars, taskvars>>

\* objects.py:146-148: the loop over final_placements.values() from position
\* k of the insertion order on; st.raised is set by a failed lookup, which
\* ends the loop
RECURSIVE PointsLoop(_, _, _)
PointsLoop(k, max_rank, st) ==
    IF k > Len(final_order) THEN st
    ELSE LET p == final_order[k]
             placement == st.final[p]
         IN  IF ~ NotPoints(placement.superevent_points)
             THEN PointsLoop(k + 1, max_rank, st)
             ELSE IF RankRaises(max_rank, placement.superevent_rank)
             THEN [st EXCEPT !.raised = TRUE]
             ELSE PointsLoop(k + 1, max_rank,
                     [st EXCEPT !.final[p].superevent_points =
                         rank_to_points(max_rank, placement.superevent_rank)])

\* objects.py:145-149: the formula and the points
AssignPoints ==
    /\ mpc = "fold"
    /\ dict_idx > Len(placement_dicts)
    /\ IF FormulaRaises(total_participants)
       THEN /\ mpc' = "ValueError"
            /\ UNCHANGED final_placements
       ELSE LET st == PointsLoop(1, total_participants,
                                 [final |-> final_placements, raised |-> FALSE])
            IN  /\ final_placements' = st.final
                /\ mpc' = IF st.raised THEN "ValueError" ELSE "returned"
    /\ UNCHANGED <<placement_dicts, dict_idx, total_participants, final_order,
                   aggvars, formulavars, loadvars, eventvars,
                   rerunvars, taskvars>>

----------------------------------------------------------------------------
(* Placement sets handed to process_placement_dicts *)

MergeParticipants == {"AAA", "BBB"}

\* points a sheet with a points column supplies
ExplicitPoints == {0, 40}

\* data.py:50-62: the placement_dict of one sheet.  Every sheet with rows has
\* a winner (rank 1); a sheet has a points column for all of its rows or for
\* none (row.get("points") is then None).
SheetDicts ==
    UNION {
      {[p \in P |-> Placement(p, ranks[p], points[p])] :
          ranks \in {r \in [P -> 1..MaxRank] : P # {} => \E p \in P : r[p] = 1},
          points \in [P -> {NonePoints}] \cup [P -> ExplicitPoints]}
      : P \in SUBSET MergeParticipants}

RECURSIVE DictLists(_)
DictLists(n) ==
    IF n = 0 THEN {<<>>}
    ELSE LET shorter == DictLists(n - 1)
         IN  shorter \cup {Append(l, d) : l \in {x \in shorter : Len(x) = n - 1},
                                          d \in SheetDicts}

\* test_objects.py:7-14: the argument of test_process_placement_dicts
ScenarioDicts ==
    << [p \in {"AAA", "BBB", "CCC"} |->
           IF p = "AAA" THEN Placement("AAA", 1, 100)
           ELSE Placement(p, 2, 40)],
       [p \in {"DDD"} |-> Placement("DDD", 1, 20)] >>

AggIdle ==
    /\ superevents = <<>>
    /\ data = <<>>
    /\ pc = "idle"
    /\ superevent_idx = 1
    /\ rank_idx = 1
    /\ processed_superevents = NoneProcessed
    /\ scanlog = <<>>

InitMerge ==
    /\ placement_dicts \in DictLists(MaxEvents) \cup {ScenarioDicts}
    /\ mpc = "fold"
    /\ dict_idx = 1
    /\ total_participants = 0
    /\ final_placements = <<>>
    /\ final_order = <<>>
    /\ AggIdle
    /\ FormulaIdle
    /\ LoadIdle
    /\ EventsIdle
    /\ SingleRun
    /\ NoTasks

NextMerge == FoldPlacementDict \/ AssignPoints

SpecMerge == InitMerge /\ [][NextMerge]_vars

----------------------------------------------------------------------------
(* Vocabulary of the properties of process_placement_dicts *)

Merged == DOMAIN final_placements

Ended == mpc \in {"returned", "ValueError"}

\* the placement set a consolidated placement comes from: the last one that
\* holds the participant
EventOf(p) ==
    CHOOSE k \in 1..Len(placement_dicts) :
        /\ p \in DOMAIN placement_dicts[k]
        /\ \A j \in (k + 1)..Len(placement_dicts) : p \notin DOMAIN placement_dicts[j]

RawRank(p) == placement_dicts[EventOf(p)][p].superevent_rank

InputPoints(p) == placement_dicts[EventOf(p)][p].superevent_points

MergedRank(p) == final_placements[p].superevent_rank

MergedPoints(p) == final_placements[p].superevent_points

RanksOf(d) == {d[p].superevent_rank : p \in DOMAIN d}

HighestRank(d) == CHOOSE r \in RanksOf(d) : \A x \in RanksOf(d) : x <= r

TieCount(d) == Cardinality({p \in DOMAIN d : d[p].superevent_rank = HighestRank(d)})

\* maxRank + tieCount of one event
SlotsOf(d) == IF DOMAIN d = {} THEN 0 ELSE HighestRank(d) + TieCount(d)

\* the running offset of the specification before event k
RECURSIVE OffsetBefore(_)
OffsetBefore(k) ==
    IF k <= 1 THEN 0 ELSE OffsetBefore(k - 1) + SlotsOf(placement_dicts[k - 1])

\* the number of placements in the events before event k
RECURSIVE PlacementsBefore(_)
PlacementsBefore(k) ==
    IF k <= 1 THEN 0
    ELSE PlacementsBefore(k - 1) + Cardinality(DOMAIN placement_dicts[k - 1])

TotalPlacements == PlacementsBefore(Len(placement_dicts) + 1)

FinalOffset == OffsetBefore(Len(placement_dicts) + 1)

\* the table of the Formula Builder in closed form
FormulaPoints(N, r) ==
    20 * (N - r + 1) + 20 * Cardinality({pb \in {1, 2, 4, 8} : r <= pb /\ pb < N})

----------------------------------------------------------------------------
(* C7 *)

\* C7: in the mapping process_placement_dicts returns, the rank of every
\* placement is its raw rank plus the running offset, which starts at 0 and
\* advances by maxRank + tieCount after each event.
C7_RankIsRawPlusOffset ==
    mpc = "returned" =>
        \A p \in Merged : MergedRank(p) = RawRank(p) + OffsetBefore(EventOf(p))

----------------------------------------------------------------------------
(* C8 *)

\* C8: the returned mapping holds every participant of every input set; a
\* placement of a later set has its rank raised by the number of placements
\* in all earlier sets, and every placement's points are
\* get_formula(total number of placements)(merged rank), whatever points the
\* input carried.
C8_RankRaisedByCountPointsByFormula ==
    mpc = "returned" =>
        /\ Merged = UNION {DOMAIN placement_dicts[k] : k \in 1..Len(placement_dicts)}
        /\ \A p \in Merged :
              /\ MergedRank(p) = RawRank(p) + PlacementsBefore(EventOf(p))
              /\ MergedRank(p) \in 1..TotalPlacements
              /\ MergedPoints(p) = FormulaPoints(TotalPlacements, MergedRank(p))

----------------------------------------------------------------------------
(* C9 *)

\* C9 as stated: the table is sized to the final merge offset, the sum of
\* maxRank + tieCount over the events, every merged rank lies in 1..F and the
\* lookup succeeds for any events with positive raw ranks.
C9_TableSizedByFinalOffset ==
    (Ended /\ TotalPlacements > 0) =>
        /\ total_participants = FinalOffset
        /\ mpc = "returned"
        /\ \A p \in Merged : MergedRank(p) \in 1..FinalOffset

\* placements whose points the code looks up
LookedUp == {p \in Merged : NotPoints(InputPoints(p))}

\* C9, amended: the table is sized to F = the total number of placements of
\* the merged events; points are looked up for the placements whose points
\* are unset (None or 0), each gets the table's value at its rank, which lies
\* in 1..F; the merge fails with a domain error exactly when F <= 0 or such a
\* placement has a rank outside 1..F (raw ranks with a gap).
C9_TableSizedByPlacementCount ==
    Ended =>
        /\ total_participants = TotalPlacements
        /\ mpc = "returned" =>
              \A p \in LookedUp :
                  /\ MergedRank(p) \in 1..TotalPlacements
                  /\ MergedPoints(p) = FormulaPoints(TotalPlacements, MergedRank(p))
        /\ mpc = "ValueError" <=>
              \/ TotalPlacements <= 0
              \/ \E p \in LookedUp : MergedRank(p) \notin 1..TotalPlacements

\* two events merged, the count of placements differs from the final offset,
\* and a placement of the second event got its points from the table
C9_Witness ==
    /\ mpc = "returned"
    /\ Len(placement_dicts) = 2
    /\ total_participants = TotalPlacements
    /\ total_participants # FinalOffset
    /\ \E p \in LookedUp :
          /\ EventOf(p) = 2
          /\ MergedPoints(p) = FormulaPoints(total_participants, MergedRank(p))
          /\ MergedPoints(p) > 0

----------------------------------------------------------------------------
(* C10 *)

\* C10: a placement whose source data supplies an explicit points value keeps
\* exactly that value; only placements without a supplied value get
\* formula-derived points.
C10_ExplicitPointsKept ==
    mpc = "returned" =>
        \A p \in Merged :
            InputPoints(p) # NonePoints => MergedPoints(p) = InputPoints(p)

----------------------------------------------------------------------------
(* get_formula on its own: a field size is drawn, the formula is built, and *)
(* the returned function is called on ranks inside and outside 1..N.       *)

FieldSizes == (0 - 1)..MaxFieldSize

LookupRanks == (0 - 1)..(MaxFieldSize + 2)

\* objects.py:152-173: get_formula(max_rank)
GetFormula ==
    /\ fpc = "call"
    /\ IF FormulaRaises(formula_max_rank)
          THEN /\ fpc' = "ValueError"
               /\ points_table' = <<>>
          ELSE /\ fpc' = "formula"
               /\ points_table' = points_list(formula_max_rank)
    /\ UNCHANGED <<formula_max_rank, lookup_rank, points_out, aggvars, mergevars,
                   loadvars, eventvars,
                   rerunvars, taskvars>>

\* objects.py:167-171: one call of the returned _rank_to_points
RankToPoints ==
    /\ fpc \in {"formula", "points", "RankError"}
    /\ \E r \in LookupRanks :
          /\ lookup_rank' = r
          /\ IF RankRaises(formula_max_rank, r)
                THEN /\ fpc' = "RankError"
                     /\ points_out' = 0
                ELSE /\ fpc' = "points"
                     /\ points_out' = points_table[r]
    /\ UNCHANGED <<formula_max_rank, points_table, aggvars, mergevars,
                   loadvars, eventvars,
                   rerunvars, taskvars>>

InitFormula ==
    /\ fpc = "call"
    /\ formula_max_rank \in FieldSizes
    /\ points_table = <<>>
    /\ lookup_rank = 0
    /\ points_out = 0
    /\ AggIdle
    /\ MergeIdle
    /\ LoadIdle
    /\ EventsIdle
    /\ SingleRun
    /\ NoTasks

NextFormula == GetFormula \/ RankToPoints

SpecFormula == InitFormula /\ [][NextFormula]_vars

\* get_formula returned a function
FormulaBuilt == fpc \in {"formula", "points", "RankError"}

\* the returned function was called on lookup_rank
LookedUpRank == fpc \in {"points", "RankError"}

----------------------------------------------------------------------------
(* C11 *)

----------------------------------------------------------------------------
(* C12 *)

\* C12: get_formula reproduces the documented tables: N=1 gives 20; N=3 gives
\* 100, 60, 20; N=10 gives 260, 220, 180, 160, 140, 120, 100, 80, 40, 20.
C12_DocumentedTables ==
    FormulaBuilt =>
        /\ formula_max_rank = 1 => points_table = <<20>>
        /\ formula_max_rank = 3 => points_table = <<100, 60, 20>>
        /\ formula_max_rank = 10 =>
              points_table = <<260, 220, 180, 160, 140, 120, 100, 80, 40, 20>>

----------------------------------------------------------------------------
(* C13 *)

\* C13: get_formula(N) fails with a domain error for every N <= 0; for N >= 1
\* the returned function gives a value on every rank of 1..N and fails with
\* a domain error for every rank below 1 or above N.
C13_DomainErrors ==
    /\ fpc = "ValueError" => formula_max_rank <= 0
    /\ FormulaBuilt => formula_max_rank >= 1
    /\ LookedUpRank =>
          /\ fpc = "points" <=> lookup_rank \in 1..formula_max_rank
          /\ fpc = "RankError" <=>
                (lookup_rank < 1 \/ lookup_rank > formula_max_rank)

\* a rank just above the field size refused, after a field of size zero or
\* less could not have got this far
C13_Witness ==
    /\ fpc = "RankError"
    /\ formula_max_rank >= 1
    /\ lookup_rank = formula_max_rank + 1

----------------------------------------------------------------------------
(* data.py: load_event *)

\* objects.py:83-91: Event(year, type_)
Event(year, type_) == [year |-> year, type_ |-> type_]

\* objects.py:24-29: Participant.all_participants after the participants
\* sheet is loaded, each code with its parent: CCC and DDD are two teams
\* whose placements count for AAA
all_participants ==
    [code \in {"AAA", "BBB", "CCC", "DDD"} |->
        IF code \in {"CCC", "DDD"} THEN "AAA" ELSE "None"]

\* data.py:55-56: the participant a row is recorded for
Redirected(code) ==
    IF all_participants[code] # "None" THEN all_participants[code] ELSE code

\* data.py:57: placement_dict[participant] = placement
DictPut(dict, key, value) ==
    [k \in DOMAIN dict \cup {key} |-> IF k = key THEN value ELSE dict[k]]

\* data.py:51-61: one row of the sheet
LoadRow ==
    /\ lpc = "rows"
    /\ row_idx <= Len(sheet_data)
    /\ LET row == sheet_data[row_idx]
           participant == row.participant
       IN  IF participant \in DOMAIN sheet_placement_dict
           THEN /\ lpc' = "ValueError"
                /\ UNCHANGED <<row_idx, sheet_placement_dict>>
           ELSE /\ sheet_placement_dict' =
                      DictPut(sheet_placement_dict, Redirected(participant),
                              Placement(row.participant, row.rank, NonePoints))
                /\ row_idx' = row_idx + 1
                /\ lpc' = "rows"
    /\ UNCHANGED <<sheet_event, sheet_data, events,
                   aggvars, mergevars, formulavars, eventvars,
                   rerunvars, taskvars>>

\* data.py:62-63: the event is recorded
StoreEvent ==
    /\ lpc = "rows"
    /\ row_idx > Len(sheet_data)
    /\ events' = DictPut(events, sheet_event, sheet_placement_dict)
    /\ lpc' = "stored"
    /\ UNCHANGED <<sheet_event, sheet_data, row_idx, sheet_placement_dict,
                   aggvars, mergevars, formulavars, eventvars,
                   rerunvars, taskvars>>

\* rows of a sheet without a points column
SheetRanks == 1..2

SheetRows == [participant : DOMAIN all_participants, rank : SheetRanks]

RECURSIVE Sheets(_)
Sheets(n) ==
    IF n = 0 THEN {<<>>}
    ELSE LET shorter == Sheets(n - 1)
         IN  shorter \cup {Append(l, row) : l \in {x \in shorter : Len(x) = n - 1},
                                            row \in SheetRows}

InitLoad ==
    /\ lpc = "rows"
    /\ sheet_event = Event(0, "WC")
    /\ sheet_data \in Sheets(MaxRows)
    /\ row_idx = 1
    /\ sheet_placement_dict = <<>>
    /\ events = <<>>
    /\ AggIdle
    /\ MergeIdle
    /\ FormulaIdle
    /\ EventsIdle
    /\ SingleRun
    /\ NoTasks

NextLoad == LoadRow \/ StoreEvent

SpecLoad == InitLoad /\ [][NextLoad]_vars

\* the rows load_event has gone through without an error
RowsLoaded == 1..(row_idx - 1)

----------------------------------------------------------------------------
(* C14 *)

\* C14: loading an event in which two rows refer to the same participant (the
\* same code twice, or two rows that resolve to the same participant after
\* parent redirection) fails with an error; no row silently overwrites an
\* earlier placement, so every recorded event holds at most one placement per
\* participant, one per input row.
C14_DuplicateRowsRejected ==
    /\ lpc # "ValueError" =>
          /\ \A i, j \in RowsLoaded :
                i # j => Redirected(sheet_data[i].participant)
                            # Redirected(sheet_data[j].participant)
          /\ Cardinality(DOMAIN sheet_placement_dict) = Cardinality(RowsLoaded)
    /\ lpc = "stored" =>
          Cardinality(DOMAIN events[sheet_event]) = Len(sheet_data)

----------------------------------------------------------------------------
(* data.py: process_events *)

\* objects.py:10-18: EventType and its values
EventTypes == {"WOG", "SOG", "WC", "EC", "TTT", "DC"}

EventTypeValue(type_) ==
    CASE type_ = "WOG" -> 1
      [] type_ = "SOG" -> 2
      [] type_ = "WC"  -> 3
      [] type_ = "EC"  -> 4
      [] type_ = "TTT" -> 5
      [] type_ = "DC"  -> 6

\* objects.py:113-117, 125-129: class attribute event_types
event_types(superevent_type) ==
    IF superevent_type = OlympicGames THEN {"WOG", "SOG", "TTT"}
                                      ELSE {"WC", "EC", "DC"}

\* a test of the year alone
IsMatching_anytype(event, year, superevent_type) == event.year = year

\* data.py:74: the condition of the list comprehension
IsMatching(event, year, superevent_type) ==
    event.year = year /\ event.type_ \in event_types(superevent_type)

\* data.py:76: sorted(..., key=type_.value) of a set of events of one year
\* and one category (their types, and so their values, are distinct)
RECURSIVE SortedByValue(_)
SortedByValue(E) ==
    IF E = {} THEN <<>>
    ELSE LET first == CHOOSE e \in E :
                         \A o \in E : EventTypeValue(e.type_) <= EventTypeValue(o.type_)
         IN  <<first>> \o SortedByValue(E \ {first})

\* data.py:71-76: matching_events
matching_events(year, superevent_type) ==
    SortedByValue({event \in DOMAIN events : IsMatching(event, year, superevent_type)})

\* data.py:69-70: the (year, superevent_type) pairs in loop order
RECURSIVE PairsOfYears(_)
PairsOfYears(Y) ==
    IF Y = {} THEN <<>>
    ELSE LET year == CHOOSE y \in Y : \A o \in Y : y <= o
         IN  << [year |-> year, type |-> OlympicGames],
                [year |-> year, type |-> Championship] >>
             \o PairsOfYears(Y \ {year})

Pairs == PairsOfYears({event.year : event \in DOMAIN events})

\* data.py:70-81: one (year, superevent_type) pair up to the call of
\* process_placement_dicts; a pair without events is passed over
MatchEvents ==
    /\ epc = "pairs"
    /\ pair_idx <= Len(Pairs)
    /\ LET pair == Pairs[pair_idx]
           matching == matching_events(pair.year, pair.type)
       IN  IF matching = <<>>
           THEN /\ pair_idx' = pair_idx + 1
                /\ UNCHANGED <<epc, mergevars>>
           ELSE /\ placement_dicts' = [k \in 1..Len(matching) |-> events[matching[k]]]
                /\ mpc' = "fold"
                /\ dict_idx' = 1
                /\ total_participants' = 0
                /\ final_placements' = <<>>
                /\ final_order' = <<>>
                /\ epc' = "merging"
                /\ UNCHANGED pair_idx
    /\ UNCHANGED <<superevent_data, aggvars, formulavars, loadvars,
                   rerunvars, taskvars>>

\* data.py:79-84: process_placement_dicts returned, the period gets its column
StoreSuperevent ==
    /\ epc = "merging"
    /\ mpc = "returned"
    /\ superevent_data' = Append(superevent_data,
          [superevent |-> SuperEvent(Pairs[pair_idx].type, Pairs[pair_idx].year),
           placements |-> final_placements,
           index      |-> final_order])
    /\ pair_idx' = pair_idx + 1
    /\ epc' = "pairs"
    /\ UNCHANGED <<aggvars, mergevars, formulavars, loadvars,
                   rerunvars, taskvars>>

\* data.py:80: the ValueError of process_placement_dicts ends process_events
RaiseFromMerge ==
    /\ epc = "merging"
    /\ mpc = "ValueError"
    /\ epc' = "ValueError"
    /\ UNCHANGED <<pair_idx, superevent_data, aggvars, mergevars, formulavars, loadvars,
                   rerunvars, taskvars>>

\* data.py:86-88: pd.concat, which raises ValueError when there is no column
ConcatSuperevents ==
    /\ epc = "pairs"
    /\ pair_idx > Len(Pairs)
    /\ epc' = IF superevent_data = <<>> THEN "ValueError" ELSE "returned"
    /\ UNCHANGED <<pair_idx, superevent_data, aggvars, mergevars, formulavars, loadvars,
                   rerunvars, taskvars>>

EventYears == {0, 1}

EventKeys == {Event(year, type_) : year \in EventYears, type_ \in EventTypes}

\* sheets without a points column whose ranks lie within the field
EventDicts ==
    {d \in SheetDicts :
        \A p \in DOMAIN d : /\ d[p].superevent_points = NonePoints
                             /\ d[p].superevent_rank <= Cardinality(DOMAIN d)}

\* test_data.py:8-13: the events of test_process_events (year 1111 as year
\* 0), every participant the winner of its event
ScenarioEvents ==
    [event \in {Event(0, "DC"), Event(0, "WC"), Event(0, "WOG"), Event(1, "DC")} |->
        LET code == CASE event = Event(0, "DC")  -> "AAA"
                      [] event = Event(0, "WC")  -> "BBB"
                      [] event = Event(0, "WOG") -> "CCC"
                      [] event = Event(1, "DC")  -> "DDD"
        IN  [p \in {code} |-> Placement(code, 1, NonePoints)]]

InitEvents ==
    /\ \/ \E keys \in {K \in SUBSET EventKeys : Cardinality(K) <= MaxEvents} :
             events \in [keys -> EventDicts]
       \/ events = ScenarioEvents
    /\ epc = "pairs"
    /\ pair_idx = 1
    /\ superevent_data = <<>>
    /\ lpc = "idle"
    /\ sheet_event = <<>>
    /\ sheet_data = <<>>
    /\ row_idx = 1
    /\ sheet_placement_dict = <<>>
    /\ AggIdle
    /\ MergeIdle
    /\ FormulaIdle
    /\ SingleRun
    /\ NoTasks

NextEvents ==
    \/ MatchEvents
    \/ FoldPlacementDict
    \/ AssignPoints
    \/ StoreSuperevent
    \/ RaiseFromMerge
    \/ ConcatSuperevents

\* process_events called on a set of events, or process_placement_dicts
\* called on its own
InitEventsOrMerge == InitEvents \/ InitMerge

SpecEvents == InitEventsOrMerge /\ [][NextEvents]_vars

----------------------------------------------------------------------------
(* Vocabulary of the properties of process_events *)

\* the periods that have a column
Superevents == {superevent_data[k].superevent : k \in 1..Len(superevent_data)}

\* the events of a period: those of its year whose type belongs to its
\* category
EventsOf(superevent) ==
    {event \in DOMAIN events :
        /\ event.year = superevent.year
        /\ event.type_ \in (IF superevent.type = OlympicGames
                               THEN {"WOG", "SOG", "TTT"}
                               ELSE {"WC", "EC", "DC"})}

\* the (year, category) pairs process_events is already past
PairsPassed ==
    {SuperEvent(Pairs[k].type, Pairs[k].year) : k \in 1..(pair_idx - 1)}

\* priority of an event type: a lower value is a higher priority
Priority(type_) ==
    CASE type_ = "WOG" -> 1
      [] type_ = "SOG" -> 2
      [] type_ = "WC"  -> 3
      [] type_ = "EC"  -> 4
      [] type_ = "TTT" -> 5
      [] type_ = "DC"  -> 6

\* the event a placement of a period's column comes from
SourceEvents(superevent, p) ==
    {event \in EventsOf(superevent) : p \in DOMAIN events[event]}

----------------------------------------------------------------------------
(* C15 *)

\* C15: a period is never built from zero contributing events: the merger
\* called with no placement sets, or only empty ones, ends with an error
\* instead of returning an empty consolidated ranking, and process_events
\* produces no period for a year/category pair that has no event.
C15_NoPeriodFromNothing ==
    /\ mpc = "returned" =>
          /\ \E k \in 1..Len(placement_dicts) : DOMAIN placement_dicts[k] # {}
          /\ DOMAIN final_placements # {}
    /\ (Ended /\ \A k \in 1..Len(placement_dicts) : DOMAIN placement_dicts[k] = {})
          => mpc = "ValueError"
    /\ \A k \in 1..Len(superevent_data) :
          /\ EventsOf(superevent_data[k].superevent) # {}
          /\ DOMAIN superevent_data[k].placements # {}
    /\ \A superevent \in PairsPassed :
          EventsOf(superevent) = {} => superevent \notin Superevents

\* process_events returned a table although it went past a year/category
\* pair without an event
C15_Witness ==
    /\ epc = "returned"
    /\ \E superevent \in PairsPassed :
          /\ EventsOf(superevent) = {}
          /\ superevent \notin Superevents
    /\ Superevents # {}

----------------------------------------------------------------------------
(* C16 *)

\* C16: process_events produces exactly one period for each (year, category)
\* pair for which at least one event of that year has a type of the category;
\* every event's placements go into exactly that one period; the events of a
\* period are handed to the merger in ascending event-type priority, so the
\* participants of a higher-priority event rank above those of a
\* lower-priority event of the same period.
C16_OnePeriodPerPairInPriorityOrder ==
    /\ epc = "merging" =>
          \A k, l \in 1..Len(placement_dicts) :
             k < l => \E e1, e2 \in EventsOf(SuperEvent(Pairs[pair_idx].type,
                                                        Pairs[pair_idx].year)) :
                         /\ placement_dicts[k] = events[e1]
                         /\ placement_dicts[l] = events[e2]
                         /\ Priority(e1.type_) < Priority(e2.type_)
    /\ epc = "returned" =>
          /\ Superevents = {SuperEvent(pair.type, pair.year) :
                               pair \in {q \in {Pairs[k] : k \in 1..Len(Pairs)} :
                                            EventsOf(SuperEvent(q.type, q.year)) # {}}}
          /\ Cardinality(Superevents) = Len(superevent_data)
          /\ \A k \in 1..Len(superevent_data) :
                LET column == superevent_data[k] IN
                /\ DOMAIN column.placements =
                      UNION {DOMAIN events[event] : event \in EventsOf(column.superevent)}
                /\ \A e1, e2 \in EventsOf(column.superevent) :
                      Priority(e1.type_) < Priority(e2.type_) =>
                         \A p1 \in DOMAIN events[e1] \ DOMAIN events[e2] :
                            \A p2 \in DOMAIN events[e2] :
                               column.placements[p1].superevent_rank
                                  < column.placements[p2].superevent_rank

----------------------------------------------------------------------------
(* process_four_years called again on the table it returned *)

\* data.py:91-125: a further call of process_four_years, on the table the
\* previous call has stamped; its local variables start afresh
Rerun ==
    /\ pc = "done"
    /\ run < MaxRuns
    /\ run' = run + 1
    /\ first_run_data' = IF run = 1 THEN data ELSE first_run_data
    /\ pc' = "accumulate"
    /\ superevent_idx' = 1
    /\ rank_idx' = 1
    /\ processed_superevents' = NoneProcessed
    /\ scanlog' = <<>>
    /\ UNCHANGED <<superevents, data, mergevars, formulavars, loadvars, eventvars,
                   taskvars>>

InitRerun ==
    /\ \E S \in {T \in Structures : Cardinality(T) <= MaxRerunPeriods} :
          \E kinds \in Careers(Cardinality(S)) :
             /\ superevents = ColumnOrder(S)
             /\ data = Frame(kinds)
    /\ pc = "accumulate"
    /\ superevent_idx = 1
    /\ rank_idx = 1
    /\ processed_superevents = NoneProcessed
    /\ scanlog = <<>>
    /\ MergeIdle
    /\ FormulaIdle
    /\ LoadIdle
    /\ EventsIdle
    /\ SingleRun
    /\ NoTasks

NextRerun == ProcessSuperevent \/ AssignRanks \/ Rerun

SpecRerun == InitRerun /\ [][NextRerun]_vars

----------------------------------------------------------------------------
(* C17 *)

\* C17: running process_four_years a second time on the table it has already
\* stamped yields exactly the same rolling points and rolling ranks as the
\* first run.
C17_RerunIdempotent ==
    (run > 1 /\ pc = "done") =>
        \A i \in 1..Len(data) : \A p \in DOMAIN data[i] :
            /\ isnull(data[i][p]) = isnull(first_run_data[i][p])
            /\ ~ isnull(data[i][p]) =>
                  /\ data[i][p].four_year_points = first_run_data[i][p].four_year_points
                  /\ data[i][p].four_year_rank = first_run_data[i][p].four_year_rank

----------------------------------------------------------------------------
(* process_four_years with the work for each target period as a task of    *)
(* its own: the steps of the backward scans of different targets, and the  *)
(* rank assignments, interleave in any order.                              *)

\* data.py:93-117: the table after the first loop has processed the targets
\* idx, idx + 1, ... one after the other, starting from frame (the table
\* after each target is bound as a value before the next target reads it)
RECURSIVE AccumulatedFrom(_, _)
AccumulatedFrom(idx, frame) ==
    IF idx > Len(superevents) THEN frame
    ELSE CHOOSE result \in
            {AccumulatedFrom(idx + 1, next) :
                next \in {Scan(idx, 0, [frame |-> frame, counts |-> NoneProcessed,
                                        used |-> {}, skipped |-> {},
                                        cutoff |-> {}]).frame}} : TRUE

\* data.py:93-125: the table process_four_years returns for frame
process_four_years(frame) ==
    CHOOSE table \in
        {[idx \in 1..Len(accumulated) |-> RankColumn(accumulated[idx])] :
            accumulated \in {AccumulatedFrom(1, frame)}} : TRUE

\* data.py:96-117: one step of the backward scan of one target period, on
\* the table as it is at that moment
ScanTaskStep ==
    /\ pc = "tasks"
    /\ \E idx \in 1..Len(superevents) :
          /\ ~ scans[idx].finished
          /\ LET backward == scans[idx].backward
                 counts == scans[idx].counts
                 superevent == superevents[idx]
                 older == superevents[idx - backward]
                 last == backward + 1 >= Min(idx, SCAN_RANGE)
             IN  IF LimitReached(counts, older.type)
                 THEN /\ scans' = [scans EXCEPT ![idx].backward = backward + 1,
                                                ![idx].finished = last]
                      /\ UNCHANGED data
                 ELSE IF TooOld(older, superevent)
                 THEN /\ scans' = [scans EXCEPT ![idx].finished = TRUE]
                      /\ UNCHANGED data
                 ELSE LET ncounts == [counts EXCEPT ![older.type] = @ + 1]
                      IN  /\ data' = [data EXCEPT ![idx] =
                                        AddColumn(data[idx], data[idx - backward],
                                                  older, superevent)]
                          /\ scans' = [scans EXCEPT
                                         ![idx].counts = ncounts,
                                         ![idx].backward = backward + 1,
                                         ![idx].finished =
                                             last \/ AllLimitsReached(ncounts)]
    /\ UNCHANGED <<superevents, pc, superevent_idx, rank_idx, processed_superevents,
                   scanlog, sequential_data, ranked,
                   mergevars, formulavars, loadvars, eventvars, rerunvars>>

\* data.py:120-123: the rolling ranks of one period whose scan has ended
RankTask ==
    /\ pc = "tasks"
    /\ \E idx \in 1..Len(superevents) :
          /\ scans[idx].finished
          /\ idx \notin ranked
          /\ data' = [data EXCEPT ![idx] = RankColumn(data[idx])]
          /\ ranked' = ranked \cup {idx}
    /\ UNCHANGED <<superevents, pc, superevent_idx, rank_idx, processed_superevents,
                   scanlog, sequential_data, scans,
                   mergevars, formulavars, loadvars, eventvars, rerunvars>>

InitTasks ==
    /\ \E S \in {T \in Structures : Cardinality(T) <= MaxTaskPeriods} :
          \E kinds \in Careers(Cardinality(S)) :
             /\ superevents = ColumnOrder(S)
             /\ data = Frame(kinds)
    /\ sequential_data = process_four_years(data)
    /\ scans = [idx \in 1..Len(superevents) |->
                  [backward |-> 0, counts |-> NoneProcessed, finished |-> FALSE]]
    /\ ranked = {}
    /\ pc = "tasks"
    /\ superevent_idx = 1
    /\ rank_idx = 1
    /\ processed_superevents = NoneProcessed
    /\ scanlog = <<>>
    /\ MergeIdle
    /\ FormulaIdle
    /\ LoadIdle
    /\ EventsIdle
    /\ SingleRun

NextTasks == ScanTaskStep \/ RankTask

SpecTasks == InitTasks /\ [][NextTasks]_vars

----------------------------------------------------------------------------
(* Vocabulary of the properties of the processing order *)

\* the task of period idx has not taken a step yet
NotStarted(idx) == scans[idx].backward = 0 /\ ~ scans[idx].finished

----------------------------------------------------------------------------
(* C18 *)

\* C18: the rolling points and rolling rank computed for a target period
\* depend only on the own-period points of the periods and on their positions,
\* never on rolling values stamped on other periods: whatever the order in
\* which the targets are processed and however their accumulations
\* interleave, each finished period has the column that processing in
\* chronological order gives it.
C18_OrderIndependent ==
    pc = "tasks" =>
        \A idx \in ranked : data[idx] = sequential_data[idx]

\* a later period finished, with rolling points from an earlier period whose
\* own task has not started, while the task of another period is under way
C18_Witness ==
    /\ pc = "tasks"
    /\ \E i \in ranked : \E j \in 1..(i - 1) :
          /\ NotStarted(j)
          /\ \E p \in DOMAIN data[i] :
                /\ ~ isnull(data[i][p])
                /\ ~ isnull(data[j][p])
                /\ data[i][p].four_year_points > data[i][p].superevent_points
          /\ \E k \in 1..Len(superevents) :
                k \notin {i, j} /\ scans[k].backward > 0 /\ ~ scans[k].finished

----------------------------------------------------------------------------
(* C19 *)

\* the fields of a placement that come from its own period
OwnFields(cell) ==
    <<cell.original_participant_code, cell.superevent_rank, cell.superevent_points>>

\* C19: process_four_years never changes the own-period rank, own-period
\* points or source participant code of an existing placement; while
\* accumulating for target period S it writes only rolling fields of
\* placements in the column of S, and each placement's rolling rank is
\* assigned exactly once per run.
C19_SingleWriter ==
    [][/\ Len(data') = Len(data)
       /\ \A i \in 1..Len(data) : \A p \in DOMAIN data[i] :
             /\ ~ isnull(data[i][p]) =>
                   /\ ~ isnull(data'[i][p])
                   /\ OwnFields(data'[i][p]) = OwnFields(data[i][p])
             /\ data'[i][p] # data[i][p] =>
                   \/ /\ pc = "accumulate"
                      /\ i = superevent_idx
                      /\ data'[i][p].four_year_rank = MathInf
                   \/ /\ pc = "rank"
                      /\ i = rank_idx
                      /\ ~ isnull(data[i][p])
                      /\ data[i][p].four_year_rank = MathInf
                      /\ data'[i][p].four_year_rank # MathInf
                      /\ data'[i][p].four_year_points = data[i][p].four_year_points
             /\ (pc = "rank" /\ i = rank_idx /\ ~ isnull(data[i][p])) =>
                   data'[i][p].four_year_rank # MathInf
      ]_vars

\* the run is over: a placement with its own fields as loaded carries
\* rolling points from an older period and an assigned rolling rank that
\* differs from its rank within the period
C19_Witness ==
    /\ pc = "done"
    /\ \E i \in 1..Len(data) : \E p \in DOMAIN data[i] :
          /\ ~ isnull(data[i][p])
          /\ data[i][p].original_participant_code = p
          /\ data[i][p].four_year_points > data[i][p].superevent_points
          /\ data[i][p].four_year_rank # MathInf
          /\ data[i][p].four_year_rank # data[i][p].superevent_rank

----------------------------------------------------------------------------
(* process_four_years on tables with as many periods as a backward scan    *)
(* visits, and with more                                                   *)

\* tables of the two largest sizes
WindowStructures ==
    {S \in SUBSET Slots : /\ Cardinality(S) >= MaxWindowPeriods - 1
                          /\ Cardinality(S) <= MaxWindowPeriods
                          /\ \E a \in S : a.year = 0}

\* the same participants in every period
WindowCareers(n) == {[j \in 1..n |-> kind] : kind \in ColumnKinds}

InitWindow ==
    /\ \E S \in WindowStructures :
          \E kinds \in WindowCareers(Cardinality(S)) :
             /\ superevents = ColumnOrder(S)
             /\ data = Frame(kinds)
    /\ pc = "accumulate"
    /\ superevent_idx = 1
    /\ rank_idx = 1
    /\ processed_superevents = NoneProcessed
    /\ scanlog = <<>>
    /\ MergeIdle
    /\ FormulaIdle
    /\ LoadIdle
    /\ EventsIdle
    /\ SingleRun
    /\ NoTasks

NextWindow == ProcessSuperevent \/ AssignRanks

SpecWindow == InitWindow /\ [][NextWindow]_vars

\* the periods the backward scan of target i looked at
Examined(i) == scanlog[i].used \cup scanlog[i].skipped \cup scanlog[i].cutoff

----------------------------------------------------------------------------
(* C20 *)

\* C20: for the target period at index i the backward scan examines only the
\* periods at indices max(first, i - 4)..i, one after the other from i
\* downwards; a period skipped because its category cap is reached uses up
\* one of these at most five positions, so no period at an index below i - 4
\* contributes, whatever the caps and year distances are, and a period early
\* in the sequence uses the fewer periods that exist.
C20_ScanWindow ==
    \A i \in Settled :
        /\ Examined(i) \subseteq Max(1, i - 4)..i
        /\ Cardinality(Examined(i)) <= 5
        /\ \A j \in Examined(i) : \A k \in j..i : k \in Examined(i)
        /\ \A j \in 1..(i - 5) : j \notin scanlog[i].used
        /\ \A p \in RowIndex :
              ~ isnull(data[i][p]) =>
                 RollingPoints(i, p) =
                    SumDecayed(scanlog[i].used \cap (Max(1, i - 4)..i), i, p)

\* a target whose scan spent a position on a skipped period and so never got
\* to the period five positions back, which is within the years, below its
\* category cap and holds points
C20_Witness ==
    \E i \in Processed :
        /\ i > 5
        /\ scanlog[i].skipped # {}
        /\ Examined(i) = (i - 4)..i
        /\ YearsBefore(i - 5, i) <= 4
        /\ scanlog[i].counts[superevents[i - 5].type] < Cap(superevents[i - 5].type)
        /\ \E p \in RowIndex :
              /\ HasPlacement(i - 5, p)
              /\ FloorDecay(i - 5, i, OwnPoints(i - 5, p)) > 0
              /\ HasPlacement(i, p)

----------------------------------------------------------------------------
(* C21 *)

\* C21: in a consolidated period every merged rank of a later (lower-priority)
\* event is greater than every merged rank of an earlier event, so placements
\* that come from different events of the period never share a merged rank,
\* whatever gaps or ties the raw ranks of an event have.
C21_LaterEventRanksBelow ==
    mpc = "returned" =>
        \A p, q \in Merged :
            /\ EventOf(p) < EventOf(q) => MergedRank(p) < MergedRank(q)
            /\ EventOf(p) # EventOf(q) => MergedRank(p) # MergedRank(q)

----------------------------------------------------------------------------
(* C22 *)

\* the own-period points of p summed over the periods J
RECURSIVE SumOwn(_, _)
SumOwn(J, p) ==
    IF J = {} THEN 0
    ELSE LET j == CHOOSE x \in J : TRUE
         IN  OwnPoints(j, p) + SumOwn(J \ {j}, p)

\* C22: for the period sequence process_events produces (ascending year,
\* within a year OlympicGames before Championship), every period T that
\* contributes to a target S has 0 <= wholeYearsBehind(T, S) <= 4, so the
\* decay coefficient applied is one of 0, 1/4, 2/4, 3/4, 1 and a contribution
\* is never negative and never more than the own-period points of T.
C22_CoefficientInRange ==
    \A i \in Settled :
        /\ \A j \in scanlog[i].used :
              LET older == superevents[j]
                  superevent == superevents[i]
                  behind == whole_years_behind(older, superevent)
              IN  /\ behind >= 0
                  /\ behind <= 4
                  /\ behind = WholeYearsBehind(j, i)
                  /\ CoefQuarters(older, superevent) = 4 - behind
                  /\ \A p \in RowIndex :
                        ~ isnull(data[j][p]) =>
                           /\ DecayedPoints(older, superevent, OwnPoints(j, p)) >= 0
                           /\ DecayedPoints(older, superevent, OwnPoints(j, p))
                                 <= OwnPoints(j, p)
        /\ \A p \in RowIndex :
              ~ isnull(data[i][p]) =>
                 /\ RollingPoints(i, p) >= 0
                 /\ RollingPoints(i, p) <= SumOwn(scanlog[i].used, p)

\* an OlympicGames target with a contributing Championship of an earlier
\* year: the order within the year takes one year off the distance, and the
\* contribution is a proper part of the older points
C22_Witness ==
    \E i \in Processed : \E j \in scanlog[i].used : \E p \in RowIndex :
        /\ superevents[i].type = OlympicGames
        /\ superevents[j].type = Championship
        /\ YearsBefore(j, i) = 2
        /\ whole_years_behind(superevents[j], superevents[i]) = 1
        /\ HasPlacement(j, p)
        /\ HasPlacement(i, p)
        /\ DecayedPoints(superevents[j], superevents[i], OwnPoints(j, p)) > 0
        /\ DecayedPoints(superevents[j], superevents[i], OwnPoints(j, p)) < OwnPoints(j, p)
        /\ RollingPoints(i, p) < SumOwn(scanlog[i].used, p)

====
